---- MODULE Spec2Model ----
(***************************************************************************)
(* File-based blogging system: the storage accessor of                     *)
(* src/utils/fileHandler.js and the request handlers of                    *)
(* src/routes/posts.js that create and update posts.                       *)
(*                                                                         *)
(* A JavaScript string is a sequence of one-character strings, so that     *)
(* trim, split, toLowerCase, includes, replace and slugify are computed.   *)
(* The posts directory is a function from file names to file contents.     *)
(***************************************************************************)
EXTENDS Integers, Sequences, FiniteSets, TLC

VARIABLES files, clock, pending, resp, deleted, log

vars == <<files, clock, pending, resp, deleted, log>>

\* ------------------------------------------------------------------ bounds

\* Largest value of the millisecond clock.
MaxClock == 2
\* Most files the directory holds.
MaxFiles == 3
\* Most updates that have read their file and not yet written it.
MaxPending == 1
\* Most creates recorded in the create log.
MaxCreates == 3

\* ----------------------------------------------------------------- strings

UpperChars == <<"A","B","C","D","E","F","G","H","I","J","K","L","M",
                "N","O","P","Q","R","S","T","U","V","W","X","Y","Z">>
LowerChars == <<"a","b","c","d","e","f","g","h","i","j","k","l","m",
                "n","o","p","q","r","s","t","u","v","w","x","y","z">>
DigitChars == <<"0","1","2","3","4","5","6","7","8","9">>

Range(s) == {s[i] : i \in DOMAIN s}

\* JavaScript's white space, as far as the inputs here use it.
WhiteSpace == {" ", "\t", "\n"}

\* An absent property of a request body or of postData (undefined).
Undefined == <<"undefined">>

\* JavaScript truthiness of a property that is a string or undefined.
Truthy(v) == v # Undefined /\ v # <<>>

LowerChar(c) ==
    IF c \in Range(UpperChars)
    THEN LowerChars[CHOOSE i \in DOMAIN UpperChars : UpperChars[i] = c]
    ELSE c

\* String.prototype.toLowerCase
ToLowerCase(s) == [i \in DOMAIN s |-> LowerChar(s[i])]

RECURSIVE TrimStart(_)
TrimStart(s) ==
    IF s # <<>> /\ Head(s) \in WhiteSpace THEN TrimStart(Tail(s)) ELSE s

RECURSIVE TrimEnd(_)
TrimEnd(s) ==
    IF s # <<>> /\ s[Len(s)] \in WhiteSpace
    THEN TrimEnd(SubSeq(s, 1, Len(s) - 1))
    ELSE s

\* String.prototype.trim
Trim(s) == TrimEnd(TrimStart(s))

StartsWith(s, p) == Len(p) <= Len(s) /\ SubSeq(s, 1, Len(p)) = p

\* String.prototype.endsWith
EndsWith(s, p) ==
    Len(p) <= Len(s) /\ SubSeq(s, Len(s) - Len(p) + 1, Len(s)) = p

\* String.prototype.indexOf, 1-based; 0 when p does not occur.
RECURSIVE IndexFrom(_, _, _)
IndexFrom(s, p, i) ==
    IF i + Len(p) - 1 > Len(s) THEN 0
    ELSE IF SubSeq(s, i, i + Len(p) - 1) = p THEN i
    ELSE IndexFrom(s, p, i + 1)

IndexOf(s, p) == IndexFrom(s, p, 1)

\* String.prototype.includes
Includes(s, p) == IndexOf(s, p) # 0

\* String.prototype.replace with a string pattern: the first occurrence only.
Replace(s, p, r) ==
    LET i == IndexOf(s, p)
    IN  IF i = 0 THEN s
        ELSE SubSeq(s, 1, i - 1) \o r \o SubSeq(s, i + Len(p), Len(s))

\* String.prototype.split with a one-character separator.
RECURSIVE Split(_, _)
Split(s, sep) ==
    LET i == IndexOf(s, <<sep>>)
    IN  IF i = 0 THEN <<s>>
        ELSE <<SubSeq(s, 1, i - 1)>> \o Split(SubSeq(s, i + 1, Len(s)), sep)

\* String.prototype.substring(from, to), 0-based, to exclusive.
Substring(s, from, to) ==
    SubSeq(s, from + 1, IF to < Len(s) THEN to ELSE Len(s))

\* tags.split(',').map(tag => tag.trim()).filter(tag => tag)
ParseTags(s) ==
    LET parts   == Split(s, ",")
        trimmed == [i \in DOMAIN parts |-> Trim(parts[i])]
    IN  SelectSeq(trimmed, LAMBDA t : t # <<>>)

\* One run of white space becomes one replacement character.
RECURSIVE CollapseSpace(_, _)
CollapseSpace(s, r) ==
    IF s = <<>> THEN <<>>
    ELSE IF Head(s) \in WhiteSpace
         THEN <<r>> \o CollapseSpace(TrimStart(s), r)
         ELSE <<Head(s)>> \o CollapseSpace(Tail(s), r)

\* slugify(title, { lower: true, strict: true }): the replacement character
\* counts as a space, strict keeps letters, digits and white space only, the
\* result is trimmed, white space runs become "-", and all is lower-cased.
Slugify(title) ==
    LET spaced == [i \in DOMAIN title |->
                      IF title[i] = "-" THEN " " ELSE title[i]]
        strict == SelectSeq(spaced, LAMBDA c :
                      c \in Range(UpperChars) \cup Range(LowerChars)
                            \cup Range(DigitChars) \cup WhiteSpace)
    IN  ToLowerCase(CollapseSpace(Trim(strict), "-"))

JsonExt == <<".", "j", "s", "o", "n">>

\* The author of a post created without one.
Anonymous == <<"A", "n", "o", "n", "y", "m", "o", "u", "s">>

\* ------------------------------------------------------------------- dates

\* Date.prototype.toISOString of the clock's reading.
ToISOString(ms) == <<"T", ms>>

\* new Date(isoString), as the number it subtracts as.
DateOf(iso) == iso[2]

\* -------------------------------------------------------------------- JSON

\* The keys of a post object in their insertion order.
KeyOrder == <<"id", "title", "content", "author", "tags",
              "createdAt", "updatedAt", "filename">>

\* JSON.stringify(object, null, 2): the object's keys in insertion order, each
\* with its value, between braces.
Stringify(o) ==
    LET keys == SelectSeq(KeyOrder, LAMBDA k : k \in DOMAIN o)
    IN  <<"{">> \o [i \in DOMAIN keys |-> <<keys[i], o[keys[i]]>>] \o <<"}">>

\* Whether JSON.parse(text) returns (it throws on an empty or cut-off text).
CanParse(text) ==
    Len(text) >= 2 /\ text[1] = "{" /\ text[Len(text)] = "}"

\* JSON.parse(text) of a text it accepts.
Parse(text) ==
    LET pairs == SubSeq(text, 2, Len(text) - 1)
    IN  [k \in {pairs[i][1] : i \in DOMAIN pairs} |->
            pairs[CHOOSE i \in DOMAIN pairs : pairs[i][1] = k][2]]

\* post.filename = ...: the object with one more property.
WithFilename(post, filename) ==
    [k \in DOMAIN post \cup {"filename"} |->
        IF k = "filename" THEN filename ELSE post[k]]

\* What getPostByFilename and updatePost return for "no such post".
Null == [null |-> TRUE]

\* An exception that leaves the accessor and reaches its caller.
Threw == [threw |-> TRUE]

\* --------------------------------------------------------------- directory

\* The order of characters in file names, for the directory listing.
CharOrder == <<"-", ".">> \o DigitChars \o LowerChars

CharRank(c) == CHOOSE i \in DOMAIN CharOrder : CharOrder[i] = c

RECURSIVE NameBefore(_, _)
NameBefore(a, b) ==
    IF a = <<>> THEN b # <<>>
    ELSE IF b = <<>> THEN FALSE
    ELSE IF Head(a) = Head(b) THEN NameBefore(Tail(a), Tail(b))
    ELSE CharRank(Head(a)) < CharRank(Head(b))

\* fs.readdir(POSTS_DIR): the names of the directory, in the directory's
\* order (here the order of the names; an overwrite keeps a file's place).
RECURSIVE Readdir(_)
Readdir(names) ==
    IF names = {} THEN <<>>
    ELSE LET first == CHOOSE n \in names :
                          \A m \in names \ {n} : NameBefore(n, m)
         IN  <<first>> \o Readdir(names \ {first})

\* The outcomes of fs.writeFile: written; failed before the file was opened;
\* failed after the file was opened and truncated.
WriteOutcomes == {"ok", "fail", "torn"}

\* A writeFile that leaves a file that already exists as it is.
WriteFile_KeepExisting(fs, path, text, outcome) ==
    IF outcome = "fail" \/ path \in DOMAIN fs THEN fs
    ELSE [n \in DOMAIN fs \cup {path} |->
             IF n = path THEN (IF outcome = "ok" THEN text ELSE <<>>)
             ELSE fs[n]]

\* fs.writeFile(path, text): the directory afterwards.
WriteFile(fs, path, text, outcome) ==
    IF outcome = "fail" THEN fs
    ELSE [n \in DOMAIN fs \cup {path} |->
             IF n = path THEN (IF outcome = "ok" THEN text ELSE <<>>)
             ELSE fs[n]]

\* fs.unlink(path) of a file that exists: the directory afterwards.
Unlink(fs, path) == [n \in DOMAIN fs \ {path} |-> fs[n]]

\* ---------------------------------------------------------------- accessor

\* generateFilename(title), with the uuid that uuidv4() returned.
GenerateFilename(title, uuid) ==
    Slugify(title) \o <<"-">> \o Substring(uuid, 0, 8) \o JsonExt

\* The post object createPost builds: now1 and now2 are its two clock readings.
NewPost(postData, id, now1, now2) ==
    [id        |-> id,
     title     |-> Trim(postData.title),
     content   |-> Trim(postData.content),
     author    |-> IF Truthy(postData.author)
                   THEN Trim(postData.author) ELSE Anonymous,
     tags      |-> IF Truthy(postData.tags)
                   THEN ParseTags(postData.tags) ELSE <<>>,
     createdAt |-> ToISOString(now1),
     updatedAt |-> ToISOString(now2)]

\* The object updatePost builds from the post it read.
MergePost(existingPost, postData, now) ==
    [k \in DOMAIN existingPost \cup
           {"title", "content", "author", "tags", "updatedAt"} |->
        CASE k = "title" ->
               IF Truthy(postData.title)
               THEN Trim(postData.title) ELSE existingPost.title
          [] k = "content" ->
               IF Truthy(postData.content)
               THEN Trim(postData.content) ELSE existingPost.content
          [] k = "author" ->
               IF Truthy(postData.author)
               THEN Trim(postData.author) ELSE existingPost.author
          [] k = "tags" ->
               IF Truthy(postData.tags)
               THEN ParseTags(postData.tags) ELSE existingPost.tags
          [] k = "updatedAt" -> ToISOString(now)
          [] OTHER -> existingPost[k]]

\* A getPostByFilename that does not attach the handle to the post it read.
GetPostByFilename_NoHandle(fs, filename) ==
    LET filePath == filename \o JsonExt
    IN  IF filePath \in DOMAIN fs /\ CanParse(fs[filePath])
        THEN Parse(fs[filePath])
        ELSE Null

\* getPostByFilename(filename)
GetPostByFilename(fs, filename) ==
    LET filePath == filename \o JsonExt
    IN  IF filePath \in DOMAIN fs /\ CanParse(fs[filePath])
        THEN WithFilename(Parse(fs[filePath]), filename)
        ELSE Null

\* A sort by updatedAt instead of createdAt.
RECURSIVE InsertPost_ByUpdatedAt(_, _)
InsertPost_ByUpdatedAt(sorted, x) ==
    IF sorted = <<>> THEN <<x>>
    ELSE IF DateOf(x.updatedAt) - DateOf(Head(sorted).updatedAt) > 0
         THEN <<x>> \o sorted
         ELSE <<Head(sorted)>> \o InsertPost_ByUpdatedAt(Tail(sorted), x)

\* posts.sort((a, b) => new Date(b.createdAt) - new Date(a.createdAt)): the
\* sort is stable, so x goes behind every post that is not older than it.
RECURSIVE InsertPost(_, _)
InsertPost(sorted, x) ==
    IF sorted = <<>> THEN <<x>>
    ELSE IF DateOf(x.createdAt) - DateOf(Head(sorted).createdAt) > 0
         THEN <<x>> \o sorted
         ELSE <<Head(sorted)>> \o InsertPost(Tail(sorted), x)

RECURSIVE SortPosts(_)
SortPosts(posts) ==
    IF posts = <<>> THEN <<>>
    ELSE InsertPost(SortPosts(SubSeq(posts, 1, Len(posts) - 1)),
                    posts[Len(posts)])

\* getAllPosts(): one file that cannot be read or parsed rejects the
\* Promise.all, and the catch returns [].
GetAllPosts(fs) ==
    LET jsonFiles == SelectSeq(Readdir(DOMAIN fs),
                               LAMBDA f : EndsWith(f, JsonExt))
    IN  IF \E i \in DOMAIN jsonFiles : ~CanParse(fs[jsonFiles[i]])
        THEN <<>>
        ELSE SortPosts([i \in DOMAIN jsonFiles |->
                 WithFilename(Parse(fs[jsonFiles[i]]),
                              Replace(jsonFiles[i], JsonExt, <<>>))])

\* A search of the title and the content only.
SearchMatch_TitleContent(post, query) ==
    LET lowerQuery == ToLowerCase(query)
    IN  \/ Includes(ToLowerCase(post.title), lowerQuery)
        \/ Includes(ToLowerCase(post.content), lowerQuery)

\* The test of searchPosts' filter.
SearchMatch(post, query) ==
    LET lowerQuery == ToLowerCase(query)
    IN  \/ Includes(ToLowerCase(post.title), lowerQuery)
        \/ Includes(ToLowerCase(post.content), lowerQuery)
        \/ \E i \in DOMAIN post.tags :
              Includes(ToLowerCase(post.tags[i]), lowerQuery)

\* searchPosts(query)
SearchPosts(fs, query) ==
    SelectSeq(GetAllPosts(fs), LAMBDA post : SearchMatch(post, query))

\* The test of getPostsByTag's filter.
TagMatch(post, tag) ==
    \E i \in DOMAIN post.tags : ToLowerCase(post.tags[i]) = ToLowerCase(tag)

\* getPostsByTag(tag)
GetPostsByTag(fs, tag) ==
    SelectSeq(GetAllPosts(fs), LAMBDA post : TagMatch(post, tag))

\* ------------------------------------------------------------------ inputs

Uuid1 == <<"0", "0", "0", "0", "0", "0", "0", "1", "a">>
Uuid2 == <<"0", "0", "0", "0", "0", "0", "0", "2", "b">>
Uuid3 == <<"0", "0", "0", "0", "0", "0", "0", "3", "c">>

\* What uuidv4() may return.
Uuids == {Uuid1, Uuid2, Uuid3}

NoData == [title |-> Undefined, content |-> Undefined,
           author |-> Undefined, tags |-> Undefined]

PlainData == [title |-> <<"G", "o">>, content |-> <<"x">>,
              author |-> Undefined, tags |-> Undefined]

\* The same slug as PlainData's, and every property to trim or split.
FullData == [title |-> <<" ", "g", "o", "!">>, content |-> <<"y", " ">>,
             author |-> <<"A", "l", " ">>,
             tags |-> <<"a", ",", " ", "B", ",">>]

RetitleData == [title |-> <<"H", "i">>, content |-> Undefined,
                author |-> Undefined, tags |-> Undefined]

\* The handles create can return for a title of slug "go".
Handles ==
    {Replace(GenerateFilename(PlainData.title, u), JsonExt, <<>>) :
        u \in Uuids}

\* The uuids and handles of the requests that run concurrently.
RaceUuids == {Uuid1, Uuid2}

RaceHandles ==
    {Replace(GenerateFilename(PlainData.title, u), JsonExt, <<>>) :
        u \in RaceUuids}

\* --------------------------------------------------------------- operations

\* The response of the last step: the operation, the handle and data it was
\* called with, the post an update read, what it returned, and the outcome of
\* its write ("none" when it wrote nothing).
Response(op, handle, data, before, result, wrote) ==
    [op |-> op, handle |-> handle, data |-> data, before |-> before,
     result |-> result, wrote |-> wrote]

Idle == Response("idle", <<>>, NoData, Null, Null, "none")

\* createPost(postData): uuidv4() returns id and then uuid, the clock reads
\* clock and then now2, and the write ends with outcome.
CreatePost(postData, id, uuid, now2, outcome) ==
    LET post     == NewPost(postData, id, clock, now2)
        filename == GenerateFilename(postData.title, uuid)
        result   == IF outcome = "ok"
                    THEN WithFilename(post, Replace(filename, JsonExt, <<>>))
                    ELSE Threw
    IN  /\ now2 \in {clock, clock + 1}
        /\ now2 <= MaxClock
        /\ filename \in DOMAIN files \/ Cardinality(DOMAIN files) < MaxFiles
        /\ files' = WriteFile(files, filename, Stringify(post), outcome)
        /\ clock' = now2
        /\ resp' = Response("create", Replace(filename, JsonExt, <<>>),
                            postData, Null, result, outcome)
        /\ UNCHANGED pending

\* updatePost(filename, postData) up to its await of fs.writeFile: the file is
\* read and parsed and the updated post built; a failure is caught and null
\* returned.
UpdateRead(filename, postData) ==
    LET filePath == filename \o JsonExt
    IN  /\ Cardinality(pending) < MaxPending
        /\ IF filePath \in DOMAIN files /\ CanParse(files[filePath])
           THEN LET existingPost == Parse(files[filePath])
                IN  /\ pending' = pending \cup
                          {[filename |-> filename, data |-> postData,
                            before |-> existingPost,
                            post |-> MergePost(existingPost, postData, clock)]}
                    /\ resp' = Response("await", filename, postData,
                                        existingPost, Null, "none")
           ELSE /\ pending' = pending
                /\ resp' = Response("update", filename, postData, Null,
                                    Null, "none")
        /\ UNCHANGED <<files, clock>>

\* updatePost from its fs.writeFile on: the write, and the updated post
\* returned, or null when the write failed (the catch).
UpdateWrite(u, outcome) ==
    /\ u \in pending
    /\ files' = WriteFile(files, u.filename \o JsonExt, Stringify(u.post),
                          outcome)
    /\ pending' = pending \ {u}
    /\ resp' = Response("update", u.filename, u.data, u.before,
                        IF outcome = "ok"
                        THEN WithFilename(u.post, u.filename) ELSE Null,
                        outcome)
    /\ UNCHANGED clock

\* updatePost(filename, postData) with no other request running between its
\* read and its write.
UpdatePost(filename, postData, outcome) ==
    LET filePath == filename \o JsonExt
    IN  /\ IF filePath \in DOMAIN files /\ CanParse(files[filePath])
           THEN LET existingPost == Parse(files[filePath])
                    updatedPost  == MergePost(existingPost, postData, clock)
                IN  /\ files' = WriteFile(files, filePath,
                                          Stringify(updatedPost), outcome)
                    /\ resp' = Response("update", filename, postData,
                                        existingPost,
                                        IF outcome = "ok"
                                        THEN WithFilename(updatedPost, filename)
                                        ELSE Null,
                                        outcome)
           ELSE /\ files' = files
                /\ resp' = Response("update", filename, postData, Null,
                                    Null, "none")
        /\ UNCHANGED <<clock, pending>>

\* A deletePost that returns true whether or not the file was there.
DeletePost_Force(filename) ==
    LET filePath == filename \o JsonExt
    IN  /\ files' = IF filePath \in DOMAIN files
                    THEN Unlink(files, filePath) ELSE files
        /\ resp' = Response("delete", filename, NoData, Null, TRUE, "none")
        /\ UNCHANGED <<clock, pending>>

\* deletePost(filename): unlink fails on a file that is not there, and the
\* catch returns false.
DeletePost(filename) ==
    LET filePath == filename \o JsonExt
    IN  /\ IF filePath \in DOMAIN files
           THEN /\ files' = Unlink(files, filePath)
                /\ resp' = Response("delete", filename, NoData, Null, TRUE,
                                    "none")
           ELSE /\ files' = files
                /\ resp' = Response("delete", filename, NoData, Null, FALSE,
                                    "none")
        /\ UNCHANGED <<clock, pending>>

\* A request that calls getPostByFilename(filename).
GetPost(filename) ==
    /\ resp' = Response("get", filename, NoData, Null,
                        GetPostByFilename(files, filename), "none")
    /\ UNCHANGED <<files, clock, pending>>

\* A request that calls getAllPosts().
ListPosts ==
    /\ resp' = Response("list", <<>>, NoData, Null, GetAllPosts(files),
                        "none")
    /\ UNCHANGED <<files, clock, pending>>

\* A millisecond passes.
Tick ==
    /\ clock < MaxClock
    /\ clock' = clock + 1
    /\ resp' = Idle
    /\ UNCHANGED <<files, pending>>

\* ------------------------------------------------- requests in any order

Init ==
    /\ files = <<>>
    /\ clock = 0
    /\ pending = {}
    /\ resp = Idle
    /\ deleted = {}
    /\ log = <<>>

\* deleted: the handles a delete returned true for, with no create of the
\* handle since.
Create ==
    \E uuid \in RaceUuids :
        /\ CreatePost(PlainData, Uuid1, uuid, clock, "ok")
        /\ deleted' = deleted \ {resp'.handle}
        /\ UNCHANGED log

BeginUpdate ==
    \E filename \in RaceHandles :
        /\ UpdateRead(filename, RetitleData)
        /\ UNCHANGED <<deleted, log>>

EndUpdate ==
    \E u \in pending :
        /\ UpdateWrite(u, "ok")
        /\ UNCHANGED <<deleted, log>>

Delete ==
    \E filename \in RaceHandles :
        /\ DeletePost(filename)
        /\ deleted' = IF resp'.result THEN deleted \cup {filename} ELSE deleted
        /\ UNCHANGED log

Time == Tick /\ UNCHANGED <<deleted, log>>

Next == Create \/ BeginUpdate \/ EndUpdate \/ Delete \/ Time

Spec == Init /\ [][Next]_vars

\* ------------------------------------------------ requests one after another

ListCreate ==
    \E uuid \in Uuids :
        /\ CreatePost(PlainData, Uuid1, uuid, clock, "ok")
        /\ UNCHANGED <<deleted, log>>

ListUpdate ==
    \E filename \in Handles :
        /\ UpdatePost(filename, RetitleData, "ok")
        /\ UNCHANGED <<deleted, log>>

ListDelete ==
    \E filename \in Handles :
        /\ DeletePost(filename)
        /\ UNCHANGED <<deleted, log>>

NextList == ListCreate \/ ListUpdate \/ ListDelete \/ Time

SpecList == Init /\ [][NextList]_vars

\* ------------------------------------------------------------ creates only

\* log: the posts the creates returned, in their order.
LogCreate ==
    \E postData \in {PlainData, FullData}, uuid \in RaceUuids,
       now2 \in 0..MaxClock :
        /\ Len(log) < MaxCreates
        /\ CreatePost(postData, Uuid3, uuid, now2, "ok")
        /\ log' = Append(log, resp'.result)
        /\ UNCHANGED deleted

NextCreate == LogCreate \/ Time

SpecCreate == Init /\ [][NextCreate]_vars

\* ------------------------------------------------------ writes that may fail

FaultyCreate ==
    \E uuid \in RaceUuids, outcome \in WriteOutcomes :
        /\ CreatePost(PlainData, Uuid3, uuid, clock, outcome)
        /\ UNCHANGED <<deleted, log>>

FaultyUpdate ==
    \E filename \in RaceHandles, outcome \in WriteOutcomes :
        /\ UpdatePost(filename, RetitleData, outcome)
        /\ UNCHANGED <<deleted, log>>

Get ==
    \E filename \in RaceHandles :
        GetPost(filename) /\ UNCHANGED <<deleted, log>>

List == ListPosts /\ UNCHANGED <<deleted, log>>

NextFaults == FaultyCreate \/ FaultyUpdate \/ Get \/ List \/ Time

SpecFaults == Init /\ [][NextFaults]_vars

\* ------------------------------------------------------ updates of one post

EmptyString == <<>>

\* postData of an update: nothing given, one property given (empty or not),
\* or every property given.
UpdateInputs ==
    {NoData,
     [title |-> <<" ", "H", "i">>, content |-> <<"z", " ">>,
      author |-> <<"B", "o">>, tags |-> <<"c", ",", "d", " ">>]}
    \cup {[NoData EXCEPT !.title = v] : v \in {EmptyString, <<"H", "i", " ">>}}
    \cup {[NoData EXCEPT !.content = v] : v \in {EmptyString, <<" ", "z">>}}
    \cup {[NoData EXCEPT !.author = v] : v \in {EmptyString, <<"B", "o">>}}
    \cup {[NoData EXCEPT !.tags = v] : v \in {EmptyString, <<"c", ",", "d">>}}

SeedCreate ==
    /\ DOMAIN files = {}
    /\ CreatePost(FullData, Uuid3, Uuid1, clock, "ok")
    /\ UNCHANGED <<deleted, log>>

Edit ==
    \E filename \in RaceHandles, postData \in UpdateInputs :
        /\ UpdatePost(filename, postData, "ok")
        /\ UNCHANGED <<deleted, log>>

NextUpdate == SeedCreate \/ Edit \/ Time

SpecUpdate == Init /\ [][NextUpdate]_vars

\* --------------------------------------------------------- request handlers

\* The page a handler renders without calling createPost or updatePost.
Rendered(route, filename, body, view) ==
    Response(route, filename, body, Null, [view |-> view], "none")

\* router.post('/posts'): title and content are required, then createPost.
PostPosts(body, id, uuid) ==
    IF ~Truthy(body.title) \/ ~Truthy(body.content)
    THEN /\ resp' = Rendered("POST /posts", <<>>, body, "new")
         /\ UNCHANGED <<files, clock, pending>>
    ELSE CreatePost(body, id, uuid, clock, "ok")

\* router.post('/posts/:filename'): title and content are required, then
\* updatePost; without them the edit page of the stored post is rendered,
\* and reading the title of a post that is not there throws.
PostPostsFilename(filename, body) ==
    IF ~Truthy(body.title) \/ ~Truthy(body.content)
    THEN /\ resp' = IF GetPostByFilename(files, filename) = Null
                    THEN Response("POST /posts/:filename", filename, body,
                                  Null, Threw, "none")
                    ELSE Rendered("POST /posts/:filename", filename, body,
                                  "edit")
         /\ UNCHANGED <<files, clock, pending>>
    ELSE UpdatePost(filename, body, "ok")

Blank == <<" ">>

\* Request bodies: title and content absent, empty, blank or with text.
Bodies ==
    {[title |-> t, content |-> c, author |-> Undefined, tags |-> Undefined] :
        t \in {Undefined, EmptyString, Blank, <<"G", "o">>},
        c \in {EmptyString, Blank, <<"x">>}}

RouteHandles ==
    {Replace(GenerateFilename(b.title, Uuid1), JsonExt, <<>>) :
        b \in {b \in Bodies : Truthy(b.title)}}

CreateRequest ==
    \E body \in Bodies :
        /\ PostPosts(body, Uuid3, Uuid1)
        /\ UNCHANGED <<deleted, log>>

UpdateRequest ==
    \E filename \in RouteHandles, body \in Bodies :
        /\ PostPostsFilename(filename, body)
        /\ UNCHANGED <<deleted, log>>

NextRoutes == CreateRequest \/ UpdateRequest \/ Time

SpecRoutes == Init /\ [][NextRoutes]_vars

\* ------------------------------------------------------- search and filter

Golang == <<"g", "o", "l", "a", "n", "g">>

\* The posts of the directories searched: what each was created from, the
\* uuid of its file name, and the clock when it was created.
SamplePosts ==
    <<[data |-> [title |-> <<"H", "i">>, content |-> <<"x">>,
                 author |-> Undefined, tags |-> Golang],
       uuid |-> Uuid1, now |-> 0],
      [data |-> [title |-> <<"H", "i">>, content |-> <<"x">>,
                 author |-> Undefined, tags |-> <<"G", "o", ",", "b">>],
       uuid |-> Uuid2, now |-> 1],
      [data |-> [title |-> <<"H", "i">>, content |-> <<"E", "G", "O">>,
                 author |-> Undefined, tags |-> Undefined],
       uuid |-> Uuid3, now |-> 1],
      [data |-> [title |-> <<"G", "o">>, content |-> <<"x">>,
                 author |-> Undefined, tags |-> <<"a">>],
       uuid |-> Uuid1, now |-> 2]>>

\* The directory after createPost of the sample posts chosen.
RECURSIVE DirectoryOf(_)
DirectoryOf(chosen) ==
    IF chosen = {} THEN <<>>
    ELSE LET i == CHOOSE j \in chosen : TRUE
             p == SamplePosts[i]
         IN  WriteFile(DirectoryOf(chosen \ {i}),
                       GenerateFilename(p.data.title, p.uuid),
                       Stringify(NewPost(p.data, p.uuid, p.now, p.now)),
                       "ok")

InitSearch ==
    /\ files \in {DirectoryOf(chosen) : chosen \in SUBSET DOMAIN SamplePosts}
    /\ clock = MaxClock
    /\ pending = {}
    /\ resp = Idle
    /\ deleted = {}
    /\ log = <<>>

Queries == {EmptyString, <<"g", "o">>, <<"G", "O">>, <<"l", "a", "n", "g">>,
            <<"B">>, <<"h", "i">>, <<"q">>}

Tags == {<<"G", "o">>, <<"g", "o">>, <<"G", "O", "L", "A", "N", "G">>,
         <<"b">>, <<"l", "a", "n", "g">>}

\* A request that calls searchPosts(query).
Search ==
    \E query \in Queries :
        /\ resp' = Response("search", query, NoData, Null,
                            SearchPosts(files, query), "none")
        /\ UNCHANGED <<files, clock, pending, deleted, log>>

\* A request that calls getPostsByTag(tag).
FilterByTag ==
    \E tag \in Tags :
        /\ resp' = Response("tag", tag, NoData, Null,
                            GetPostsByTag(files, tag), "none")
        /\ UNCHANGED <<files, clock, pending, deleted, log>>

NextSearch == Search \/ FilterByTag

SpecSearch == InitSearch /\ [][NextSearch]_vars

\* ------------------------------------------------------------------ claims

\* The handle of a file name: the name without its ".json".
HandleOf(name) == SubSeq(name, 1, Len(name) - Len(JsonExt))

\* The post a file holds, with its handle attached.
StoredPost(name) == WithFilename(Parse(files[name]), HandleOf(name))

\* C1: once delete(handle) has returned true, getByHandle(handle) returns
\* not-found in every later state, whatever requests on the handle interleave
\* (an update that read the file before the delete included), as long as no
\* create has reused the handle.
C1_DeletedStaysNotFound ==
    \A h \in deleted : GetPostByFilename(files, h) = Null

ListedHandles(fs) ==
    LET all == GetAllPosts(fs) IN [i \in DOMAIN all |-> all[i].filename]

C8_Listing ==
    LET all == GetAllPosts(files)
    IN  /\ Len(all) = Cardinality(DOMAIN files)
        /\ \A n \in DOMAIN files :
              \E i \in DOMAIN all : all[i] = StoredPost(n)
        /\ \A i \in 1..(Len(all) - 1) :
              DateOf(all[i].createdAt) >= DateOf(all[i + 1].createdAt)

C8_UpdateKeepsOrder ==
    resp'.op = "update" => ListedHandles(files') = ListedHandles(files)

\* C8: after any sequence of creates, updates and deletes, listAll() returns
\* every stored post exactly once, with its handle, newest createdAt first;
\* an update does not move a post relative to the others.
C8_ListAll == [](C8_Listing) /\ [][C8_UpdateKeepsOrder]_vars

\* Three posts are stored, not all created in the same millisecond, and the
\* one created first has just been updated.
C8_Witness ==
    /\ resp.op = "update"
    /\ resp.result # Null
    /\ Cardinality(DOMAIN files) = 3
    /\ \E n \in DOMAIN files :
          /\ DateOf(StoredPost(n).createdAt) > DateOf(resp.result.createdAt)
          /\ DateOf(StoredPost(n).createdAt) < DateOf(resp.result.updatedAt)

PostKeys == {"id", "title", "content", "author", "tags",
             "createdAt", "updatedAt", "filename"}

\* C3: create(data) followed at once by getByHandle of the returned handle
\* returns a post equal to the one create returned in every field.
C3_CreateThenGet ==
    resp.op = "create" =>
        /\ DOMAIN resp.result = PostKeys
        /\ GetPostByFilename(files, resp.result.filename) = resp.result

\* A create of data with every property given, whose two clock readings
\* differ, has returned its post.
C3_Witness ==
    /\ resp.op = "create"
    /\ resp.data = FullData
    /\ resp.result.tags = <<<<"a">>, <<"B">>>>
    /\ resp.result.createdAt # resp.result.updatedAt

LatestOf(i) ==
    LET same == {j \in DOMAIN log : log[j].filename = log[i].filename}
    IN  log[CHOOSE j \in same : \A m \in same : m <= j]

C2_UpdateThenGet ==
    (resp.op = "update" /\ resp.result # Null) =>
        LET got    == GetPostByFilename(files, resp.handle)
            before == resp.before
            data   == resp.data
        IN  /\ got # Null
            /\ got.title = IF data.title # Undefined
                           THEN Trim(data.title) ELSE before.title
            /\ got.content = IF data.content # Undefined
                             THEN Trim(data.content) ELSE before.content
            /\ got.author = IF data.author # Undefined
                            THEN Trim(data.author) ELSE before.author
            /\ got.tags = IF data.tags # Undefined
                          THEN ParseTags(data.tags) ELSE before.tags
            /\ got.id = before.id
            /\ got.createdAt = before.createdAt
            /\ got.filename = resp.handle
            /\ DateOf(got.updatedAt) > DateOf(before.updatedAt)

\* C4 as claimed: with some files that parse and some that do not, listAll()
\* returns exactly the posts of the files that parse.
C4_ListSkipsBadFiles ==
    resp.op = "list" =>
        LET good == {n \in DOMAIN files : CanParse(files[n])}
        IN  (good # {} /\ good # DOMAIN files) =>
                /\ Len(resp.result) = Cardinality(good)
                /\ \A n \in good :
                      \E i \in DOMAIN resp.result :
                          resp.result[i] = StoredPost(n)

\* C6 as claimed: a create or an update whose file write fails ends in a
\* failure passed to its caller, not in the not-found value and not in a post.
C6_WriteFailurePropagates ==
    (resp.op \in {"create", "update"} /\ resp.wrote \in {"fail", "torn"}) =>
        resp.result = Threw

\* Two characters that are the same letter in either case, or equal.
SameLetter(a, b) ==
    \/ a = b
    \/ \E k \in DOMAIN UpperChars : {a, b} = {UpperChars[k], LowerChars[k]}

\* The query occurs in the text at some offset, case ignored.
OccursIn(query, text) ==
    \E off \in 0..(Len(text) - Len(query)) :
        \A j \in DOMAIN query : SameLetter(query[j], text[off + j])

SameIgnoringCase(a, b) ==
    Len(a) = Len(b) /\ \A j \in DOMAIN a : SameLetter(a[j], b[j])

C10_StoredPostsNotEmpty ==
    \A n \in DOMAIN files :
        CanParse(files[n]) =>
            /\ Parse(files[n]).title # EmptyString
            /\ Parse(files[n]).content # EmptyString

====
